---------------------------- MODULE Spec2Model ----------------------------
(***************************************************************************)
(* zram-advisor (src/zram_advisor/main.py): the effective-capacity         *)
(* projection compute_zram_effective, and the monitor loop of              *)
(* ZramAdvisor.main.loop / ZramAdvisor.show_system_summary / run.          *)
(*                                                                         *)
(* Python's numbers are modelled exactly: an integer is an integer and a   *)
(* float is a rational <<numerator, denominator>> in lowest terms with a   *)
(* positive denominator.  Every literal of the code (2.75, 0.10, 0.50,     *)
(* 0.75, 0.85, 0.95, 100.0) and every quotient of the small integers used  *)
(* here is compared as the code compares it; a division by zero is the     *)
(* ZeroDivisionError Python raises.                                        *)
(***************************************************************************)
EXTENDS Integers, Sequences, FiniteSets, TLC

(***************************************************************************)
(* Bounds of the model.                                                    *)
(***************************************************************************)
\* inputs of compute_zram_effective, in one common unit of bytes
MaxTotal == 2
MaxUsed == 1
MaxOrig == 7
MaxMemUsed == 6
MaxDisk == 15
MaxMemLimit == 1
\* what the monitor loop samples: RAM sizes, zram devices, loop passes
MaxRam == 1
MaxDevs == 2
MaxTicks == 2
\* the counters of a device handed to compute_effective alone
MaxStat == 1

(***************************************************************************)
(* Exact rational arithmetic (Python float arithmetic on small values).    *)
(***************************************************************************)
Abs(n) == IF n < 0 THEN -n ELSE n

RECURSIVE GCD(_, _)
GCD(a, b) == IF b = 0 THEN a ELSE GCD(b, a % b)

\* n/d in lowest terms, d # 0
Norm(n, d) ==
    LET g == GCD(Abs(n), Abs(d))
        s == IF d < 0 THEN -1 ELSE 1
    IN  <<(s * n) \div g, (s * d) \div g>>

Rat(n) == <<n, 1>>
Add(a, b) == Norm(a[1] * b[2] + b[1] * a[2], a[2] * b[2])
Sub(a, b) == Norm(a[1] * b[2] - b[1] * a[2], a[2] * b[2])
Mul(a, b) ==
    \* cross-cancel first, so that no intermediate product is needlessly large
    LET x == Norm(a[1], b[2])
        y == Norm(b[1], a[2])
    IN  Norm(x[1] * y[1], x[2] * y[2])
\* b # 0
Div(a, b) == Mul(a, Norm(b[2], b[1]))
Lt(a, b) == a[1] * b[2] < b[1] * a[2]
Le(a, b) == a[1] * b[2] <= b[1] * a[2]
IsZero(a) == a[1] = 0
Min2(a, b) == IF Lt(b, a) THEN b ELSE a

(***************************************************************************)
(* compute_zram_effective, main.py lines 86-166.                           *)
(***************************************************************************)
\* the float literals of the function
PlaceholderRatio == <<11, 4>>   \* 2.75
LowUsage == <<1, 10>>           \* 0.10
HighUsage == <<1, 2>>           \* 0.50
Aggressive == <<3, 4>>          \* 0.75
Moderate == <<17, 20>>          \* 0.85
Conservative == <<19, 20>>      \* 0.95
Hundred == <<100, 1>>           \* 100.0 and the divisor 100

\* EUsed without the clamp of lines 120-121
EUsedNoClamp(meminfo_used, zram_orig_data_size, zram_mem_used_total) ==
    meminfo_used - zram_mem_used_total + zram_orig_data_size

\* line 116 and the clamp of lines 120-121
EUsed(meminfo_used, zram_orig_data_size, zram_mem_used_total) ==
    LET e_used == meminfo_used - zram_mem_used_total + zram_orig_data_size
    IN  IF e_used <= meminfo_used THEN meminfo_used ELSE e_used

\* Ratio without the placeholder branch of lines 120-122: line 125 alone
RatioWithoutClamp(meminfo_used, zram_orig_data_size, zram_mem_used_total) ==
    IF zram_mem_used_total > 0
    THEN Norm(zram_orig_data_size, zram_mem_used_total)
    ELSE PlaceholderRatio

\* lines 119-125: the ratio; the division of line 125 is guarded by its condition
Ratio(meminfo_used, zram_orig_data_size, zram_mem_used_total) ==
    LET e_used == meminfo_used - zram_mem_used_total + zram_orig_data_size
    IN  IF e_used <= meminfo_used
        THEN PlaceholderRatio
        ELSE IF zram_mem_used_total > 0
             THEN Norm(zram_orig_data_size, zram_mem_used_total)
             ELSE PlaceholderRatio

\* line 128-129: the division of line 129 has no guard on meminfo_total
LimitRaises(meminfo_total, zram_mem_limit) ==
    zram_mem_limit > 0 /\ meminfo_total = 0

\* LimitPct with the device's own limit ignored
LimitPctIgnoringMemLimit(meminfo_total, zram_mem_limit, limit_pct) == limit_pct

\* lines 128-130; limit_pct is a rational
LimitPct(meminfo_total, zram_mem_limit, limit_pct) ==
    IF zram_mem_limit > 0
    THEN LET stats_limit_pct == Mul(Norm(zram_mem_limit, meminfo_total), Hundred)
         IN  Min2(Min2(Hundred, limit_pct), stats_limit_pct)
    ELSE limit_pct

\* line 133
UsageFraction(zram_orig_data_size, zram_disksize) ==
    IF zram_disksize > 0 THEN Norm(zram_orig_data_size, zram_disksize) ELSE Rat(0)

\* DegradationFactor with the boundaries given to the lower tier
DegradationFactorInclusive(usage_fraction) ==
    IF Le(usage_fraction, LowUsage) THEN Aggressive
    ELSE IF Le(usage_fraction, HighUsage) THEN Moderate
    ELSE Conservative

\* lines 136-144
DegradationFactor(usage_fraction) ==
    IF Lt(usage_fraction, LowUsage) THEN Aggressive
    ELSE IF Lt(usage_fraction, HighUsage) THEN Moderate
    ELSE Conservative

Confidence(usage_fraction) ==
    IF Lt(usage_fraction, LowUsage) THEN "uncertain"
    ELSE IF Lt(usage_fraction, HighUsage) THEN "confident"
    ELSE "certain"

\* CappedProjection without the cap of line 151
UncappedProjection(projected_ratio, meminfo_total, limit_pct, zram_disksize) ==
    Div(Mul(Mul(projected_ratio, Rat(meminfo_total)), limit_pct), Hundred)

\* line 149 and the cap of line 151
CappedProjection(projected_ratio, meminfo_total, limit_pct, zram_disksize) ==
    LET e_max_used == Div(Mul(Mul(projected_ratio, Rat(meminfo_total)), limit_pct),
                          Hundred)
    IN  Min2(e_max_used, Rat(zram_disksize))

\* line 153; projected_ratio # 0
AddUncompressed(e_max_used, meminfo_total, projected_ratio) ==
    Add(e_max_used, Sub(Rat(meminfo_total), Div(e_max_used, projected_ratio)))

\* EAvail clamped at zero
EAvailClamped(e_max_used, e_used) ==
    IF Lt(e_max_used, Rat(e_used)) THEN Rat(0) ELSE Sub(e_max_used, Rat(e_used))

\* line 156
EAvail(e_max_used, e_used) == Sub(e_max_used, Rat(e_used))

\* the result of a call that raised ZeroDivisionError (line 129 or line 153)
ZeroDivisionError == [outcome |-> "ZeroDivisionError"]

\* the whole function; meminfo_available is a parameter the body never reads
compute_zram_effective(meminfo_total, meminfo_used, meminfo_available, zram_orig_data_size, zram_mem_used_total, zram_disksize, zram_mem_limit, limit_pct) ==
    LET e_used == EUsed(meminfo_used, zram_orig_data_size, zram_mem_used_total)
        ratio == Ratio(meminfo_used, zram_orig_data_size, zram_mem_used_total)
        usage_fraction == UsageFraction(zram_orig_data_size, zram_disksize)
        projected_ratio == Mul(ratio, DegradationFactor(usage_fraction))
    IN  IF LimitRaises(meminfo_total, zram_mem_limit) THEN ZeroDivisionError
        ELSE IF IsZero(projected_ratio) THEN ZeroDivisionError
        ELSE LET limit == LimitPct(meminfo_total, zram_mem_limit, limit_pct)
                 capped == CappedProjection(projected_ratio, meminfo_total,
                                            limit, zram_disksize)
                 e_max_used == AddUncompressed(capped, meminfo_total, projected_ratio)
             IN  [outcome |-> "returned",
                  e_used |-> e_used,
                  e_avail |-> EAvail(e_max_used, e_used),
                  e_max_used |-> e_max_used,
                  ratio_current |-> ratio,
                  ratio_projected |-> projected_ratio,
                  projection_confidence |-> Confidence(usage_fraction),
                  usage_fraction |-> usage_fraction]

(***************************************************************************)
(* State.                                                                  *)
(***************************************************************************)
VARIABLES
    \* the last call of compute_zram_effective
    args,           \* its arguments
    result,         \* what it gave: not yet called, returned, or raised
    \* the process: run() -> main() -> loop(once) -> show_system_summary(once)
    pc,             \* the statement the process is at
    once,           \* loop(once=True), the --unload branch of main
    release_ok,     \* self.release holds a marquee (os-release or lsb-release read)
    cw_installed,   \* "from console_window import ConsoleWindow" succeeds
    meminfo,        \* self.meminfo
    devs,           \* self.devs: device -> stats
    effective,      \* self.effective
    win,            \* the ConsoleWindow is up (created, curses not stopped)
    key_pending,    \* a key typed and not yet read by win.prompt
    exc,            \* the exception the finally block of line 516 will re-raise
    exit_status,    \* the status the process exited with
    exit_msg,       \* what the process reported as it stopped
    \* history of the run, read by no statement of the program
    tick,           \* passes of the live loop's re-acquisition begun (lines 512-514)
    gen,            \* the pass each of meminfo, devs, effective was acquired in
    shown,          \* the renders so far: kind and the passes of the data shown
    at_exit,        \* tick and data passes held when the live loop was left
    cancel_phase,   \* where the first keypress or interrupt arrived, window up
    empty_at,       \* the first pass whose device map was empty
    io_fault,       \* an acquisition raised
    interrupted,    \* a KeyboardInterrupt was raised
    agg_in          \* self.devs as the last compute_effective found it

callvars == <<args, result>>
optvars == <<once, release_ok, cw_installed>>
datavars == <<meminfo, devs, effective>>
histvars == <<tick, gen, shown, at_exit, cancel_phase, empty_at, io_fault,
              interrupted, agg_in>>
procvars == <<pc, win, key_pending, exc, exit_status, exit_msg>>
loopvars == <<optvars, datavars, procvars, histvars>>
vars == <<callvars, loopvars>>

NotCalled == [outcome |-> "not called"]
\* Python's None for self.meminfo and self.effective (lines 172-173)
None == [outcome |-> "None"]
\* self.devs before get_zram_stats (line 175) is as falsy as the empty map
NoDevs == << >>
NoGen == [mem |-> -1, devs |-> -1, eff_mem |-> -1, eff_devs |-> -1]
NotLeft == [tick |-> -1, gen |-> NoGen]

\* the state before main's loop(once) starts
NotStarted ==
    /\ meminfo = None /\ devs = NoDevs /\ effective = None
    /\ win = FALSE /\ key_pending = FALSE /\ exc = "none"
    /\ exit_status = -1 /\ exit_msg = ""
    /\ tick = 0 /\ gen = NoGen /\ shown = << >> /\ at_exit = NotLeft
    /\ cancel_phase = "none" /\ empty_at = -1
    /\ io_fault = FALSE /\ interrupted = FALSE
    /\ agg_in = NoDevs

(***************************************************************************)
(* The function alone: any non-negative arguments, one call.               *)
(***************************************************************************)
\* the values limit_pct is called with: the default 80 (line 88, line 184),
\* no projection at all, and one above the 100.0 of line 130
LimitPcts == {Rat(0), Rat(80), Rat(150)}

\* the scenarios of the specification's section 8, in GiB
Scenarios ==
    { [meminfo_total |-> 8, meminfo_used |-> 5, meminfo_available |-> 3,
       zram_orig_data_size |-> o, zram_mem_used_total |-> m, zram_disksize |-> 4,
       zram_mem_limit |-> l, limit_pct |-> Rat(80)]
      : <<o, m, l>> \in {<<2, 1, 0>>, <<0, 0, 0>>, <<2, 1, 1>>} }

ArgSets ==
    { [meminfo_total |-> t, meminfo_used |-> u, meminfo_available |-> 0,
       zram_orig_data_size |-> o, zram_mem_used_total |-> m, zram_disksize |-> d,
       zram_mem_limit |-> l, limit_pct |-> p]
      : t \in 0..MaxTotal, u \in 0..MaxUsed, o \in 0..MaxOrig,
        m \in 0..MaxMemUsed, d \in 0..MaxDisk, l \in 0..MaxMemLimit,
        p \in LimitPcts }
    \cup Scenarios

Apply(a) ==
    compute_zram_effective(a.meminfo_total, a.meminfo_used, a.meminfo_available,
                           a.zram_orig_data_size, a.zram_mem_used_total,
                           a.zram_disksize, a.zram_mem_limit, a.limit_pct)

InitFn ==
    /\ args \in ArgSets
    /\ result = NotCalled
    /\ pc = "not started"
    /\ once = FALSE /\ release_ok = TRUE /\ cw_installed = TRUE
    /\ NotStarted

\* one call of the function on the arguments drawn
Call ==
    /\ result.outcome = "not called"
    /\ result' = Apply(args)
    /\ UNCHANGED <<args, loopvars>>

NextFn == Call

SpecFn == InitFn /\ [][NextFn]_vars

(***************************************************************************)
(* The monitor: run (580-590), main.loop (555-562), compute_effective      *)
(* (360-400), show_system_summary (463-524).                               *)
(***************************************************************************)
\* self.DB is set at line 183 and assigned nowhere else (opts.DB is never read)
DB == FALSE
\* self.limit_pct, line 184
SelfLimitPct == 80
\* sys.exit(1) at line 467 (no devices) and at line 481 (no console-window)
ExitNoZram == 1
\* what run() exits with: line 586, line 590, and 0 on return
ExitInterrupt == 0
ExitFault == 15
ExitReturn == 0

\* what get_meminfo can return (lines 195-219): MemUsed = MemTotal - MemAvailable
MemSamples ==
    UNION { { [MemTotal |-> t, MemAvailable |-> a, MemUsed |-> t - a] : a \in 0..t }
            : t \in 1..MaxRam }

\* the counters of one device (lines 292-313): an idle one and a busy one
DevStatSamples ==
    { [orig_data_size |-> 0, compr_data_size |-> 0, mem_used_total |-> 0,
       mem_limit |-> 0, mem_used_max |-> 0, disksize |-> 2],
      [orig_data_size |-> 2, compr_data_size |-> 1, mem_used_total |-> 1,
       mem_limit |-> 1, mem_used_max |-> 1, disksize |-> 2] }

\* zram0 .. zram<MaxDevs-1>; a device without mm_stat is left out (line 299)
DevIds == 0..(MaxDevs - 1)
DevMaps == UNION { [S -> DevStatSamples] : S \in SUBSET DevIds }

\* "not self.devs", lines 367 and 465
NoDevices(d) == DOMAIN d = {}

SetMin(S) == CHOOSE x \in S : \A y \in S : x <= y

\* the loop of lines 373-381 with "=" for the "+=" of line 381
RECURSIVE AggregateFromAssigning(_, _, _)
AggregateFromAssigning(stats, d, ids) ==
    IF ids = {} THEN stats
    ELSE LET dev == SetMin(ids)
         IN  AggregateFromAssigning([key \in DOMAIN stats |-> d[dev][key]],
                                    d, ids \ {dev})

\* lines 372-381: the first device's counters copied, every other one added key by key
RECURSIVE AggregateFrom(_, _, _)
AggregateFrom(stats, d, ids) ==
    IF ids = {} THEN stats
    ELSE LET dev == SetMin(ids)
         IN  AggregateFrom([key \in DOMAIN stats |-> stats[key] + d[dev][key]],
                           d, ids \ {dev})

Aggregate(d) ==
    LET first == SetMin(DOMAIN d)
    IN  AggregateFrom(d[first], d, DOMAIN d \ {first})

\* the aggregation without the .copy() of line 378: stats is the first device's
\* own dict, and the additions of line 381 land in self.devs
DevsAfterAggregateAliased(d) == [d EXCEPT ![SetMin(DOMAIN d)] = Aggregate(d)]

\* self.devs after the loop of lines 373-381: stats is a copy of the first
\* device's dict (line 378), so line 381 writes to the copy only
DevsAfterAggregate(d) == d

\* the arguments compute_effective passes, lines 384-393
CallArgs(m, d) ==
    LET stats == Aggregate(d)
    IN  [meminfo_total |-> m.MemTotal, meminfo_used |-> m.MemUsed,
         meminfo_available |-> m.MemAvailable,
         zram_orig_data_size |-> stats.orig_data_size,
         zram_mem_used_total |-> stats.mem_used_total,
         zram_disksize |-> stats.disksize,
         zram_mem_limit |-> stats.mem_limit,
         limit_pct |-> Rat(SelfLimitPct)]

\* compute_effective, lines 360-400: None without devices, else the projection
\* with the aggregated stats attached (line 396); a raise passes through
compute_effective(m, d) ==
    IF NoDevices(d) THEN None
    ELSE LET r == Apply(CallArgs(m, d))
         IN  IF r.outcome # "returned" THEN r
             ELSE [f \in DOMAIN r \cup {"stats"} |->
                      IF f = "stats" THEN Aggregate(d) ELSE r[f]]

\* _build_display_lines (403-461) reads self.release.marquee (411) and
\* self.effective.stats (420): either being None is an AttributeError
CanBuild == release_ok /\ effective.outcome = "returned"

\* the statements inside the try of line 488
InTry == pc \in {"build", "prompt", "t_meminfo", "t_devs", "t_eff"}
Sampling == pc \in {"t_meminfo", "t_devs", "t_eff"}

ExitOf(e) == IF e = "KeyboardInterrupt" THEN ExitInterrupt ELSE ExitFault
MsgOf(e) == IF e = "KeyboardInterrupt" THEN "OK, QUITTING NOW" ELSE "exception"

\* an exception raised where the process is: inside the try it reaches the
\* finally block of line 516, elsewhere it reaches run() (lines 584-590)
Raise(e) ==
    /\ exc' = e
    /\ IF InTry
       THEN /\ pc' = "finally"
            /\ at_exit' = [tick |-> tick, gen |-> gen]
            /\ UNCHANGED <<exit_status, exit_msg>>
       ELSE /\ pc' = "exited"
            /\ exit_status' = ExitOf(e)
            /\ exit_msg' = MsgOf(e)
            /\ UNCHANGED at_exit

Init ==
    /\ args = NotCalled /\ result = NotCalled
    /\ pc = "i_meminfo"
    /\ once \in BOOLEAN
    /\ release_ok \in BOOLEAN
    /\ cw_installed \in BOOLEAN
    /\ NotStarted

\* self.meminfo = self.get_meminfo(), lines 557 and 512
GetMeminfo ==
    /\ pc \in {"i_meminfo", "t_meminfo"}
    /\ \E m \in MemSamples : meminfo' = m
    /\ gen' = [gen EXCEPT !.mem = tick]
    /\ pc' = IF pc = "i_meminfo" THEN "i_devs" ELSE "t_devs"
    /\ UNCHANGED <<callvars, optvars, devs, effective, win, key_pending, exc,
                   exit_status, exit_msg, tick, shown, at_exit, cancel_phase,
                   empty_at, io_fault, interrupted, agg_in>>

\* get_meminfo raises (the file cannot be read, or the assert of line 213)
GetMeminfoFails ==
    /\ pc \in {"i_meminfo", "t_meminfo"}
    /\ io_fault' = TRUE
    /\ Raise("Exception")
    /\ UNCHANGED <<callvars, optvars, datavars, win, key_pending, tick, gen,
                   shown, cancel_phase, empty_at, interrupted, agg_in>>

\* self.devs = self.get_zram_stats(), lines 559 and 513 (558: prober)
GetZramStats ==
    /\ pc \in {"i_devs", "t_devs"}
    /\ \E d \in DevMaps :
          /\ devs' = d
          /\ empty_at' = IF NoDevices(d) /\ empty_at = -1 THEN tick ELSE empty_at
    /\ gen' = [gen EXCEPT !.devs = tick]
    /\ pc' = IF pc = "i_devs" THEN "i_params" ELSE "t_eff"
    /\ UNCHANGED <<callvars, optvars, meminfo, effective, win, key_pending, exc,
                   exit_status, exit_msg, tick, shown, at_exit, cancel_phase,
                   io_fault, interrupted, agg_in>>

\* get_zram_stats raises (a sysfs file cannot be read or parsed)
GetZramStatsFails ==
    /\ pc \in {"i_devs", "t_devs"}
    /\ io_fault' = TRUE
    /\ Raise("Exception")
    /\ UNCHANGED <<callvars, optvars, datavars, win, key_pending, tick, gen,
                   shown, cancel_phase, empty_at, interrupted, agg_in>>

\* self.params = self.get_vm_params(), line 560
GetVmParams ==
    /\ pc = "i_params"
    /\ pc' = "i_eff"
    /\ UNCHANGED <<callvars, optvars, datavars, win, key_pending, exc,
                   exit_status, exit_msg, histvars>>

GetVmParamsFails ==
    /\ pc = "i_params"
    /\ io_fault' = TRUE
    /\ Raise("Exception")
    /\ UNCHANGED <<callvars, optvars, datavars, win, key_pending, tick, gen,
                   shown, cancel_phase, empty_at, interrupted, agg_in>>

\* self.effective = self.compute_effective(), lines 561 and 514
ComputeEffective ==
    /\ pc \in {"i_eff", "t_eff"}
    /\ LET r == compute_effective(meminfo, devs)
       IN  IF r.outcome = "ZeroDivisionError"
           THEN /\ Raise("Exception")
                /\ args' = CallArgs(meminfo, devs)
                /\ result' = r
                /\ UNCHANGED <<effective, gen>>
           ELSE /\ effective' = r
                /\ gen' = [gen EXCEPT !.eff_mem = gen.mem, !.eff_devs = gen.devs]
                /\ pc' = IF pc = "i_eff" THEN "show" ELSE "build"
                /\ IF NoDevices(devs)
                   THEN UNCHANGED callvars
                   ELSE /\ args' = CallArgs(meminfo, devs)
                        /\ result' = Apply(CallArgs(meminfo, devs))
                /\ UNCHANGED <<exc, exit_status, exit_msg, at_exit>>
    /\ agg_in' = devs
    /\ devs' = IF NoDevices(devs) THEN devs ELSE DevsAfterAggregate(devs)
    /\ UNCHANGED <<optvars, meminfo, win, key_pending, tick, shown,
                   cancel_phase, empty_at, io_fault, interrupted>>

\* lines 465-467: no devices
NoZram ==
    /\ pc = "show"
    /\ NoDevices(devs)
    /\ pc' = "exited"
    /\ exit_status' = ExitNoZram
    /\ exit_msg' = "NO zRAM"
    /\ UNCHANGED <<callvars, optvars, datavars, win, key_pending, exc, histvars>>

\* PrintOnce without the return of line 474: it goes on to open the window
PrintOnceNoReturn ==
    /\ pc = "show"
    /\ ~NoDevices(devs)
    /\ once
    /\ IF CanBuild
       THEN /\ shown' = Append(shown, [kind |-> "once", gen |-> gen])
            /\ pc' = "warmup"
            /\ win' = TRUE
            /\ UNCHANGED <<exc, exit_status, exit_msg, at_exit>>
       ELSE /\ Raise("Exception")
            /\ UNCHANGED <<shown, win>>
    /\ UNCHANGED <<callvars, optvars, datavars, key_pending, tick, gen,
                   cancel_phase, empty_at, io_fault, interrupted, agg_in>>

\* lines 470-474 with once: the lines are built from the held data, printed,
\* and show_system_summary returns
PrintOnce ==
    /\ pc = "show"
    /\ ~NoDevices(devs)
    /\ once
    /\ IF CanBuild
       THEN /\ shown' = Append(shown, [kind |-> "once", gen |-> gen])
            /\ pc' = "exited"
            /\ exit_status' = ExitReturn
            /\ exit_msg' = "returned"
            /\ UNCHANGED <<exc, at_exit>>
       ELSE /\ Raise("Exception")
            /\ UNCHANGED shown
    /\ UNCHANGED <<callvars, optvars, datavars, win, key_pending, tick, gen,
                   cancel_phase, empty_at, io_fault, interrupted, agg_in>>

\* lines 477-481: console_window cannot be imported
ImportFails ==
    /\ pc = "show"
    /\ ~NoDevices(devs)
    /\ ~once
    /\ ~cw_installed
    /\ pc' = "exited"
    /\ exit_status' = ExitNoZram
    /\ exit_msg' = "console-window not installed"
    /\ UNCHANGED <<callvars, optvars, datavars, win, key_pending, exc, histvars>>

\* lines 483-486: the window is created and the 2-second sleep begins
StartWindow ==
    /\ pc = "show"
    /\ ~NoDevices(devs)
    /\ ~once
    /\ cw_installed
    /\ win' = TRUE
    /\ pc' = "warmup"
    /\ UNCHANGED <<callvars, optvars, datavars, key_pending, exc, exit_status,
                   exit_msg, histvars>>

\* line 486 ends: the try of line 488 is entered
Warmup ==
    /\ pc = "warmup"
    /\ pc' = "build"
    /\ UNCHANGED <<callvars, optvars, datavars, win, key_pending, exc,
                   exit_status, exit_msg, histvars>>

\* lines 490-504: the lines are built from the held data and put on the window
BuildAndRender ==
    /\ pc = "build"
    /\ IF CanBuild
       THEN /\ shown' = Append(shown, [kind |-> "loop", gen |-> gen])
            /\ pc' = "prompt"
            /\ UNCHANGED <<exc, exit_status, exit_msg, at_exit>>
       ELSE /\ Raise("Exception")
            /\ UNCHANGED shown
    /\ UNCHANGED <<callvars, optvars, datavars, win, key_pending, tick, gen,
                   cancel_phase, empty_at, io_fault, interrupted, agg_in>>

\* the break of line 509: the finally block is entered with nothing to re-raise
Break ==
    /\ pc' = "finally"
    /\ exc' = "none"
    /\ at_exit' = [tick |-> tick, gen |-> gen]

\* lines 505-509: win.prompt returns a key (typed before or during the wait)
PromptKey ==
    /\ pc = "prompt"
    /\ Break
    /\ key_pending' = FALSE
    /\ cancel_phase' = IF cancel_phase = "none" THEN "waiting" ELSE cancel_phase
    /\ UNCHANGED <<callvars, optvars, datavars, win, exit_status, exit_msg, tick,
                   gen, shown, empty_at, io_fault, interrupted, agg_in>>

\* lines 505-512: win.prompt times out after a second; "key or self.DB"
PromptTimeout ==
    /\ pc = "prompt"
    /\ ~key_pending
    /\ tick < MaxTicks
    /\ IF DB
       THEN /\ Break
            /\ UNCHANGED tick
       ELSE /\ pc' = "t_meminfo"
            /\ tick' = tick + 1
            /\ UNCHANGED <<exc, at_exit>>
    /\ UNCHANGED <<callvars, optvars, datavars, win, key_pending, exit_status,
                   exit_msg, gen, shown, cancel_phase, empty_at, io_fault,
                   interrupted, agg_in>>

\* FinalSnapshot as the specification words it: one more sampling pass first
FinalSnapshotResampled ==
    /\ pc = "finally"
    /\ win' = FALSE
    /\ pc' = "exited"
    /\ \E m \in MemSamples, d \in DevMaps :
          /\ meminfo' = m
          /\ devs' = d
          /\ effective' = compute_effective(m, d)
          /\ gen' = [mem |-> tick + 1, devs |-> tick + 1,
                     eff_mem |-> tick + 1, eff_devs |-> tick + 1]
          /\ IF release_ok /\ ~NoDevices(d)
             THEN /\ shown' = Append(shown, [kind |-> "final", gen |-> gen'])
                  /\ exit_status' = ExitOf(IF exc = "none" THEN "KeyboardInterrupt" ELSE exc)
                  /\ exit_msg' = IF exc = "none" THEN "returned" ELSE MsgOf(exc)
                  /\ UNCHANGED exc
             ELSE /\ exc' = "Exception"
                  /\ exit_status' = ExitFault
                  /\ exit_msg' = "exception"
                  /\ UNCHANGED shown
    /\ UNCHANGED <<callvars, optvars, key_pending, tick, at_exit, cancel_phase,
                   empty_at, io_fault, interrupted, agg_in>>

\* lines 516-524, then the way out through loop, main and run: curses is
\* stopped, the lines are built from the held data and printed, and what the
\* try left is re-raised; a raise in the block itself replaces it
FinalSnapshot ==
    /\ pc = "finally"
    /\ win' = FALSE
    /\ pc' = "exited"
    /\ IF CanBuild
       THEN /\ shown' = Append(shown, [kind |-> "final", gen |-> gen])
            /\ exit_status' = IF exc = "none" THEN ExitReturn ELSE ExitOf(exc)
            /\ exit_msg' = IF exc = "none" THEN "returned" ELSE MsgOf(exc)
            /\ UNCHANGED exc
       ELSE /\ exc' = "Exception"
            /\ exit_status' = ExitFault
            /\ exit_msg' = "exception"
            /\ UNCHANGED shown
    /\ UNCHANGED <<callvars, optvars, datavars, key_pending, tick, gen, at_exit,
                   cancel_phase, empty_at, io_fault, interrupted, agg_in>>

\* where a keypress or an interrupt finds the live monitor
PhaseOf(p) ==
    IF p = "warmup" THEN "warm-up"
    ELSE IF p = "build" THEN "rendering"
    ELSE IF p = "prompt" THEN "waiting"
    ELSE "sampling"

\* SIGINT: Python raises KeyboardInterrupt at the statement being run
Interrupt ==
    /\ pc \notin {"not started", "finally", "exited"}
    /\ interrupted' = TRUE
    /\ cancel_phase' = IF win /\ cancel_phase = "none" THEN PhaseOf(pc) ELSE cancel_phase
    /\ Raise("KeyboardInterrupt")
    /\ UNCHANGED <<callvars, optvars, datavars, win, key_pending, tick, gen,
                   shown, empty_at, io_fault, agg_in>>

\* a key typed while the window is up and the process is not in win.prompt:
\* the terminal keeps it for the next win.prompt
KeyPress ==
    /\ win
    /\ ~key_pending
    /\ pc = "warmup" \/ pc = "build" \/ Sampling
    /\ key_pending' = TRUE
    /\ cancel_phase' = IF cancel_phase = "none" THEN PhaseOf(pc) ELSE cancel_phase
    /\ UNCHANGED <<callvars, optvars, datavars, pc, win, exc, exit_status,
                   exit_msg, tick, gen, shown, at_exit, empty_at, io_fault,
                   interrupted, agg_in>>

Next ==
    \/ GetMeminfo \/ GetMeminfoFails
    \/ GetZramStats \/ GetZramStatsFails
    \/ GetVmParams \/ GetVmParamsFails
    \/ ComputeEffective
    \/ NoZram \/ PrintOnce \/ ImportFails \/ StartWindow
    \/ Warmup \/ BuildAndRender \/ PromptKey \/ PromptTimeout
    \/ FinalSnapshot
    \/ Interrupt \/ KeyPress

Spec == Init /\ [][Next]_vars

(***************************************************************************)
(* compute_effective alone (360-400): any device map, one call.            *)
(***************************************************************************)
\* the counters of one device as get_zram_stats reads them (lines 292-313):
\* mem_used_total is the compressed data plus the allocator's overhead,
\* mem_used_max a high-water mark above it, disksize above the data stored
AggStatSamples ==
    { [orig_data_size |-> o, compr_data_size |-> c, mem_used_total |-> c + 1,
       mem_limit |-> l, mem_used_max |-> c + 2, disksize |-> o + 3]
      : o \in 0..MaxStat, c \in 0..MaxStat, l \in 0..MaxStat }

AggMaps == UNION { [S -> AggStatSamples] : S \in SUBSET DevIds }

\* main.loop has run lines 557-560 and is at line 561
InitAgg ==
    /\ args = NotCalled /\ result = NotCalled
    /\ pc = "i_eff"
    /\ once = FALSE /\ release_ok = TRUE /\ cw_installed = TRUE
    /\ meminfo \in MemSamples
    /\ devs \in AggMaps
    /\ effective = None
    /\ win = FALSE /\ key_pending = FALSE /\ exc = "none"
    /\ exit_status = -1 /\ exit_msg = ""
    /\ tick = 0 /\ gen = [NoGen EXCEPT !.mem = 0, !.devs = 0]
    /\ shown = << >> /\ at_exit = NotLeft
    /\ cancel_phase = "none"
    /\ empty_at = IF NoDevices(devs) THEN 0 ELSE -1
    /\ io_fault = FALSE /\ interrupted = FALSE
    /\ agg_in = NoDevs

NextAgg == ComputeEffective

SpecAgg == InitAgg /\ [][NextAgg]_vars

(***************************************************************************)
(* Claims about compute_zram_effective, checked under SpecFn.              *)
(***************************************************************************)
Returned == result.outcome = "returned"
Raised == result.outcome = "ZeroDivisionError"

\* equality and order of two rationals, by cross-multiplication
SameRat(a, b) == a[1] * b[2] = b[1] * a[2]
NonNeg(a) == a[1] * a[2] >= 0

\* C1: for every combination of non-negative inputs, zeros for meminfo_total,
\* zram_mem_used_total and zram_disksize included, the call returns without
\* raising, and ratio_current, ratio_projected and usage_fraction are >= 0.
C1_NeverRaises ==
    /\ ~Raised
    /\ Returned => /\ NonNeg(result.ratio_current)
                   /\ NonNeg(result.ratio_projected)
                   /\ NonNeg(result.usage_fraction)

\* the tier the claim gives for orig_data_size o and disksize d:
\* usage_fraction = o/d (0 when d = 0), compared with 0.10 and 0.50 in integers
TierOf(o, d) ==
    IF d = 0 \/ 10 * o < d THEN <<3, 4, "uncertain">>
    ELSE IF 2 * o < d THEN <<17, 20, "confident">>
    ELSE <<19, 20, "certain">>

IsScenario ==
    /\ args.meminfo_total = 8 /\ args.meminfo_used = 5
    /\ args.zram_orig_data_size = 2 /\ args.zram_mem_used_total = 1
    /\ args.zram_disksize = 4 /\ args.zram_mem_limit = 0
    /\ args.limit_pct = <<80, 1>>

\* C7: effective_used is used - mem_used_total + orig_data_size when that is
\* strictly greater than used, with ratio_current = orig / mem_used_total
\* (2.75 if mem_used_total = 0); otherwise effective_used is used and
\* ratio_current is 2.75.  orig_data_size = 0 gives effective_used = used; the
\* scenario gives effective_used 6, ratio_current 2.0, ratio_projected 1.9.
C7_EffectiveUsedAndRatio ==
    Returned =>
        LET u == args.meminfo_used
            o == args.zram_orig_data_size
            m == args.zram_mem_used_total
            raw == u - m + o
        IN  /\ raw > u =>
                /\ result.e_used = raw
                /\ SameRat(result.ratio_current, IF m = 0 THEN <<11, 4>> ELSE <<o, m>>)
            /\ ~(raw > u) =>
                /\ result.e_used = u
                /\ SameRat(result.ratio_current, <<11, 4>>)
            /\ o = 0 => result.e_used = u
            /\ IsScenario =>
                /\ result.e_used = 6
                /\ SameRat(result.ratio_current, <<2, 1>>)
                /\ SameRat(result.ratio_projected, <<19, 10>>)

\* C7's case: the scenario has been computed (compression is net-positive).
C7_Witness == Returned /\ IsScenario /\ result.e_used > args.meminfo_used

\* C8: for non-negative inputs with total_bytes > 0, effective_max_capacity
\* is at most disksize + total_bytes.
C8_MaxCapacityBounded ==
    (Returned /\ args.meminfo_total > 0) =>
        Le(result.e_max_used, <<args.zram_disksize + args.meminfo_total, 1>>)

\* C8's case: the projection ratio * total * limit / 100 exceeds a positive
\* disksize, so the cap is what bounds the result.
C8_Witness ==
    /\ Returned /\ args.meminfo_total > 0 /\ args.zram_disksize > 0
    /\ args.zram_mem_limit = 0
    /\ result.ratio_projected[1] * args.meminfo_total * args.limit_pct[1]
         > args.zram_disksize * 100 * result.ratio_projected[2] * args.limit_pct[2]

\* the same call with mem_limit = 0
Unlimited == Apply([args EXCEPT !.zram_mem_limit = 0])

\* the limit percentage the claim names: min(100, limit_pct, 100 * mem_limit / total)
ClaimedLimit ==
    LET a == <<100, 1>>
        b == args.limit_pct
        c == <<100 * args.zram_mem_limit, args.meminfo_total>>
        ab == IF a[1] * b[2] <= b[1] * a[2] THEN a ELSE b
    IN  IF ab[1] * c[2] <= c[1] * ab[2] THEN ab ELSE c

\* effective_max_capacity as the claim's limit percentage gives it:
\* e = min(ratio_projected * total * limit / 100, disksize), then
\* e + total - e / ratio_projected, here as e_max * rp = e * rp + total * rp - e
UsesClaimedLimit ==
    LET rp == result.ratio_projected
        p == Mul(Mul(rp, <<args.meminfo_total, 1>>), Mul(ClaimedLimit, <<1, 100>>))
        e == IF Le(p, <<args.zram_disksize, 1>>) THEN p ELSE <<args.zram_disksize, 1>>
    IN  SameRat(Mul(result.e_max_used, rp),
                Sub(Add(Mul(e, rp), Mul(<<args.meminfo_total, 1>>, rp)), e))

\* C9 as stated: with mem_limit > 0 the limit percentage used is
\* min(100, limit_pct, 100 * mem_limit / total), and effective_max_capacity is
\* never greater than the one obtained with mem_limit = 0.
C9_AsStated ==
    (Returned /\ args.zram_mem_limit > 0) =>
        /\ UsesClaimedLimit
        /\ Le(result.e_max_used, Unlimited.e_max_used)

\* C9 as amended: with mem_limit > 0 (and a result returned) the limit
\* percentage used is min(100, limit_pct, 100 * mem_limit / total);
\* effective_max_capacity is never greater than the one obtained with
\* mem_limit = 0 when ratio_projected >= 1, and never smaller than it when
\* ratio_projected <= 1.
C9_Amended ==
    (Returned /\ args.zram_mem_limit > 0) =>
        /\ UsesClaimedLimit
        /\ Le(<<1, 1>>, result.ratio_projected)
             => Le(result.e_max_used, Unlimited.e_max_used)
        /\ Le(result.ratio_projected, <<1, 1>>)
             => Le(Unlimited.e_max_used, result.e_max_used)

\* C9's case: a device limit tighter than limit_pct shrinks the result
\* (1 GiB of 8 GiB: 12.5% instead of 80%).
C9_Witness ==
    /\ Returned /\ args.zram_mem_limit = 1 /\ args.meminfo_total = 8
    /\ SameRat(ClaimedLimit, <<25, 2>>)
    /\ Lt(result.e_max_used, Unlimited.e_max_used)

\* C10: effective_available is exactly effective_max_capacity - effective_used,
\* also when that is negative.
C10_AvailIsMaxMinusUsed ==
    Returned =>
        LET em == result.e_max_used
            ea == result.e_avail
        IN  ea[1] * em[2] = (em[1] - result.e_used * em[2]) * ea[2]

\* C10's case: effective_used exceeds effective_max_capacity and the negative
\* effective_available is returned.
C10_Witness ==
    /\ Returned
    /\ Lt(result.e_max_used, <<result.e_used, 1>>)
    /\ result.e_avail[1] < 0

\* C13: for all non-negative inputs ratio_current is the placeholder 2.75, or
\* the quotient orig_data_size / mem_used_total taken only when
\* orig_data_size > mem_used_total > 0 and so strictly greater than 1; that
\* division never has a zero denominator, ratio_projected is strictly greater
\* than 0.75, and the division by ratio_projected of the effective_max_capacity
\* step never is a division by zero: a call raises only at the limit step.
C13_RatioAboveOne ==
    LET o == args.zram_orig_data_size
        m == args.zram_mem_used_total
    IN  /\ Returned =>
              /\ IF o > m /\ m > 0
                 THEN /\ result.ratio_current[1] * m = o * result.ratio_current[2]
                      /\ result.ratio_current[1] > result.ratio_current[2]
                 ELSE result.ratio_current = <<11, 4>>
              /\ result.ratio_current[2] > 0
              /\ result.ratio_projected[2] > 0
              /\ 4 * result.ratio_projected[1] > 3 * result.ratio_projected[2]
        /\ Raised => args.meminfo_total = 0 /\ args.zram_mem_limit > 0

\* C13's case: a call with orig_data_size > mem_used_total > 0 has returned the
\* quotient as ratio_current, and a ratio_projected below 1.
C13_Witness ==
    /\ Returned
    /\ args.zram_orig_data_size > args.zram_mem_used_total
    /\ args.zram_mem_used_total > 0
    /\ result.ratio_current[1] * args.zram_mem_used_total
         = args.zram_orig_data_size * result.ratio_current[2]
    /\ result.ratio_projected[1] < result.ratio_projected[2]

(***************************************************************************)
(* Claims about the monitor, checked under Spec.                           *)
(***************************************************************************)
Exited == pc = "exited"
LastShown == shown[Len(shown)]
FinalRendered == Len(shown) > 0 /\ LastShown.kind = "final"
SamePass(g, n) == g.mem = n /\ g.devs = n /\ g.eff_mem = n /\ g.eff_devs = n

\* C2 as stated, for the termination by keypress (the break of line 509):
\* when the live loop terminates, one more Sampling step is performed before
\* the final Rendering, so the final snapshot is computed from a sample taken
\* after the termination trigger and is not a repeat of the data of the last
\* in-loop render.
C2_AsStated ==
    (FinalRendered /\ exc = "none") =>
        LET f == LastShown.gen
        IN  /\ f.mem > at_exit.tick /\ f.devs > at_exit.tick
            /\ f.eff_mem = f.mem /\ f.eff_devs = f.devs
            /\ \A i \in 1..(Len(shown) - 1) : shown[i].gen # f

\* C2 as amended: once the live loop is left no Sampling step is performed; the
\* final snapshot is built from exactly the data held when the loop was left,
\* and after a keypress that is the data of the last in-loop render.
C2_Amended ==
    /\ pc \in {"finally", "exited"} /\ at_exit.tick >= 0 =>
          /\ tick = at_exit.tick
          /\ gen = at_exit.gen
    /\ FinalRendered =>
          /\ LastShown.gen = at_exit.gen
          /\ exc = "none" =>
                /\ Len(shown) >= 2
                /\ shown[Len(shown) - 1].kind = "loop"
                /\ shown[Len(shown) - 1].gen = LastShown.gen

\* C2's case: a keypress ended the live loop after at least one re-acquisition
\* and the final snapshot has been printed.
C2_Witness == Exited /\ FinalRendered /\ exc = "none" /\ at_exit.tick >= 1

\* C3: whenever a sample yields an empty device map, at the initial sample or
\* on a later tick of the live loop, no projection is rendered from it, the
\* 'NO zRAM' condition is reported and the process stops with status 1, which
\* is not the status 15 of an unexpected fault.  (Runs with an interrupt, an
\* acquisition fault or no distro record are left aside.)
C3_AsStated ==
    (Exited /\ empty_at >= 0 /\ ~interrupted /\ ~io_fault /\ release_ok) =>
        /\ exit_status = ExitNoZram
        /\ exit_status # ExitFault
        /\ exit_msg = "NO zRAM"
        /\ \A i \in 1..Len(shown) : shown[i].gen.devs < empty_at

\* C4: once the live monitor has been started (window created, warm-up
\* included), a keypress or an interrupt arriving during warm-up, Sampling,
\* Rendering or Waiting leads to a shutdown in which the window is stopped and
\* a final snapshot is rendered before the process exits.  (Runs with an
\* acquisition fault or no distro record are left aside.)
C4_AsStated ==
    (Exited /\ cancel_phase # "none" /\ ~io_fault /\ release_ok) =>
        /\ FinalRendered
        /\ ~win

\* C5: in single-shot mode the data is sampled once and rendered at most once,
\* the window is never opened and the loop never waits or re-samples; with a
\* device present (and no interrupt, acquisition fault or missing distro
\* record) the run ends by returning after exactly one render of that sample.
C5_SingleShot ==
    once =>
        /\ ~win /\ tick = 0
        /\ pc \in {"i_meminfo", "i_devs", "i_params", "i_eff", "show", "exited"}
        /\ Len(shown) <= 1
        /\ gen.mem <= 0 /\ gen.devs <= 0
        /\ (Exited /\ exit_msg = "returned") =>
              /\ Len(shown) = 1
              /\ shown[1].kind = "once"
              /\ SamePass(shown[1].gen, 0)
              /\ exit_status = ExitReturn
        /\ (Exited /\ ~NoDevices(devs) /\ effective.outcome = "returned"
              /\ release_ok /\ ~interrupted /\ ~io_fault) =>
              exit_msg = "returned"

\* C5's case: a single-shot run with a device present has printed and returned.
C5_Witness ==
    /\ once /\ Exited /\ exit_msg = "returned"
    /\ ~NoDevices(devs) /\ Len(shown) = 1

\* a render has just been made: the data held are the data it showed
JustRendered ==
    \/ pc = "prompt"
    \/ Exited /\ Len(shown) > 0 /\ LastShown.kind \in {"once", "final"}

\* C12: at every render, in the loop or the final snapshot, also after a fault
\* part-way through a tick's re-acquisition, the projection shown was derived
\* from exactly the memory totals and the device stats shown with it.
C12_AsStated ==
    JustRendered => effective = compute_effective(meminfo, devs)

(***************************************************************************)
(* Claims about compute_effective, checked under SpecAgg.                  *)
(***************************************************************************)
StatFields ==
    {"orig_data_size", "compr_data_size", "mem_used_total", "mem_limit",
     "mem_used_max", "disksize"}

\* the sum of one field over the devices ids of the map d, in no set order
RECURSIVE FieldSum(_, _, _)
FieldSum(d, key, ids) ==
    IF ids = {} THEN 0
    ELSE LET dev == CHOOSE x \in ids : TRUE
         IN  d[dev][key] + FieldSum(d, key, ids \ {dev})

\* the ways of handing the same records over under the names of S in another order
Reorderings(S) == { p \in [S -> S] : \A y \in S : \E x \in S : p[x] = y }

\* compute_effective has just returned
Aggregated == pc \in {"show", "build"}

\* C11: compute_effective sums the device map field by field: for a non-empty
\* map each of the six fields of the aggregated stats is the sum of that field
\* over all devices, whatever the order of the devices, and the per-device
\* records are as they were; two identical devices give double every field;
\* an empty map gives None and no call of the model at all.
C11_ElementwiseSum ==
    Aggregated =>
        /\ devs = agg_in
        /\ IF NoDevices(agg_in)
           THEN /\ effective = None
                /\ args = NotCalled /\ result = NotCalled
           ELSE /\ effective.outcome = "returned"
                /\ DOMAIN effective.stats = StatFields
                /\ \A key \in StatFields :
                      effective.stats[key] = FieldSum(agg_in, key, DOMAIN agg_in)
                /\ \A p \in Reorderings(DOMAIN agg_in) :
                      Aggregate([i \in DOMAIN agg_in |-> agg_in[p[i]]]) = effective.stats
                /\ \A a, b \in DOMAIN agg_in :
                      (DOMAIN agg_in = {a, b} /\ a # b /\ agg_in[a] = agg_in[b])
                         => \A key \in StatFields :
                               effective.stats[key] = 2 * agg_in[a][key]
                /\ args.zram_orig_data_size
                     = FieldSum(agg_in, "orig_data_size", DOMAIN agg_in)
                /\ args.zram_mem_used_total
                     = FieldSum(agg_in, "mem_used_total", DOMAIN agg_in)
                /\ args.zram_disksize = FieldSum(agg_in, "disksize", DOMAIN agg_in)
                /\ args.zram_mem_limit = FieldSum(agg_in, "mem_limit", DOMAIN agg_in)

\* C11's case: a map of two identical devices holding data has been aggregated.
C11_Witness ==
    /\ Aggregated
    /\ \E a, b \in DOMAIN agg_in :
          /\ DOMAIN agg_in = {a, b} /\ a # b /\ agg_in[a] = agg_in[b]
          /\ agg_in[a].orig_data_size > 0 /\ agg_in[a].mem_limit > 0
          /\ effective.outcome = "returned"
          /\ effective.stats.orig_data_size = 2 * agg_in[a].orig_data_size

=============================================================================
